---- MODULE Spec2Model ----
(***************************************************************************)
(* Model of the KPI core of ahitool: the job analyzer (src/src/jobs.rs),   *)
(* the funnel tracker (src/src/job_tracker.rs) and the batch driver        *)
(* process_jobs (src/src/job_kpi.rs).                                      *)
(*                                                                         *)
(* Conventions.                                                            *)
(*  - Option<T> is a sequence of length at most one: None is <<>> and      *)
(*    Some(x) is <<x>>.                                                    *)
(*  - A Timestamp is an integer number of ticks; a TimeDelta is the        *)
(*    integer difference of two timestamps (it may be negative).           *)
(*  - Milestones and job kinds are the integers of into_int(); the         *)
(*    bucket grid is indexed from 0 as in the source, a timestamp slice    *)
(*    is a sequence whose element i+1 is the source's timestamps[i].       *)
(*  - A panic (assert!, expect, unwrap) ends the run: the operator         *)
(*    returns ok = FALSE together with the tracker as the code left it.    *)
(***************************************************************************)
EXTENDS Integers, Sequences, FiniteSets, TLC

VARIABLES
    tracker,                \* the bucket grid of the (global) JobTracker
    pre,                    \* history: `tracker` as it was before the last operation
    call,                   \* history: the last operation and its arguments
    result,                 \* the value the last query returned, as an Option
    panicked,               \* TRUE once an operation has panicked
    n_calls,                \* number of add_job calls / jobs processed so far
    rep_specific_trackers,  \* process_jobs: sales rep -> Option of a bucket grid
    red_flags,              \* process_jobs: sales rep -> Option of a list of (job, error)
    input_job,              \* the job last handed to analyze_job, as an Option
    analyzed,               \* what analyze_job returned for `input_job`, as an Option
    analyzed_again,         \* what analyze_job returned for the job of `analyzed`
    tracker_mask,           \* the applicability mask `tracker` was created from
    log,                    \* history: the add_job calls made, or the jobs analysed by
                            \* process_jobs, so far
    oauth,                  \* the state of run_with_credentials and of the cache file
    pc                      \* control state of the run

vars == <<tracker, pre, call, result, panicked, n_calls, rep_specific_trackers,
          red_flags, input_job, analyzed, analyzed_again, tracker_mask, log, oauth, pc>>

\* ------------------------------------------------------------------ bounds
\* timestamps of the inputs are 1..MaxTime
MaxTime == 2
\* jobs a tracker of SpecTracker holds before the add_job call under study
MaxAdds == 1
\* add_job calls of one run of SpecStats
MaxStatAdds == 3
\* jobs of one batch handed to process_jobs
MaxJobs == 2

\* calls of run_with_credentials on the same cache file
MaxRuns == 2

\* --------------------------------------------------------------- constants
MILESTONE_NUM_VARIANTS == 5
JOBKIND_NUM_VARIANTS == 3

LeadAcquired == 0
AppointmentMade == 1
ContingencySigned == 2
ContractSigned == 3
Installed == 4

InsuranceWithContingency == 0
InsuranceWithoutContingency == 1
Retail == 2

\* ----------------------------------------------------------------- options
None == <<>>

Some(x) == <<x>>

is_some(o) == Len(o) = 1

is_none(o) == Len(o) = 0

unwrap(o) == o[1]

Option(S) == {None} \cup {Some(x) : x \in S}

\* ------------------------------------------------------------ job_tracker
Bucket_default == [achieved |-> <<>>, cum_achieve_time |-> 0, cum_loss_time |-> 0]

M_of(buckets) == Cardinality(DOMAIN buckets)

N_of(buckets) == Cardinality(DOMAIN buckets[0])

\* mutant of JobTracker_new: every cell gets a bucket
JobTracker_new_dense(mask) ==
    [kind \in DOMAIN mask |-> [ms \in DOMAIN mask[kind] |-> Some(Bucket_default)]]

JobTracker_new(mask) ==
    [kind \in DOMAIN mask |->
        [ms \in DOMAIN mask[kind] |->
            IF mask[kind][ms] THEN Some(Bucket_default) ELSE None]]

\* the for loop of add_job with one of five slips: with skip_none an entry
\* that is None is passed over without recording the job; with forget_latest an
\* entry that is None clears latest_timestamp; with no_assert an absent cell
\* is passed over whatever its entry; with overwrite the time to achieve
\* replaces cum_achieve_time instead of being added to it; with last_only the
\* job is recorded at the buckets of its concrete timestamps only
RECURSIVE add_job_loop_slip(_, _, _, _, _, _)
add_job_loop_slip(st, job, kind, timestamps, milestone, slip) ==
    IF milestone >= Len(timestamps) \/ ~st.ok THEN st
    ELSE LET timestamp == timestamps[milestone + 1]
             cell == st.buckets[kind][milestone]
         IN  IF is_none(cell)
             THEN IF is_none(timestamp) \/ slip = "no_assert"
                  THEN add_job_loop_slip(st, job, kind, timestamps, milestone + 1, slip)
                  ELSE [st EXCEPT !.ok = FALSE]
             ELSE IF slip \in {"skip_none", "last_only"} /\ is_none(timestamp)
             THEN add_job_loop_slip(st, job, kind, timestamps, milestone + 1, slip)
             ELSE LET bucket == unwrap(cell)
                      time_till_this_milestone ==
                          IF is_some(st.latest_timestamp)
                          THEN unwrap(timestamp) - unwrap(st.latest_timestamp)
                          ELSE 0
                      pushed == [bucket EXCEPT !.achieved = Append(@, job)]
                      updated ==
                          IF is_some(timestamp)
                          THEN [pushed EXCEPT !.cum_achieve_time =
                                   IF slip = "overwrite" THEN time_till_this_milestone
                                   ELSE @ + time_till_this_milestone]
                          ELSE pushed
                      next ==
                          [buckets |-> [st.buckets EXCEPT ![kind][milestone] = Some(updated)],
                           latest_timestamp |->
                               IF is_some(timestamp) \/ slip = "forget_latest"
                               THEN timestamp ELSE st.latest_timestamp,
                           ok |-> TRUE]
                  IN  add_job_loop_slip(next, job, kind, timestamps, milestone + 1, slip)

\* mutant of add_job_loop: a None entry is skipped, the job is not recorded there
add_job_loop_skip_none(st, job, kind, timestamps, milestone) ==
    add_job_loop_slip(st, job, kind, timestamps, milestone, "skip_none")

\* mutant of add_job_loop: the delta is taken from the adjacent entry only
add_job_loop_forget_latest(st, job, kind, timestamps, milestone) ==
    add_job_loop_slip(st, job, kind, timestamps, milestone, "forget_latest")

\* mutant of add_job_loop: cum_achieve_time is assigned, not accumulated
add_job_loop_overwrite(st, job, kind, timestamps, milestone) ==
    add_job_loop_slip(st, job, kind, timestamps, milestone, "overwrite")

\* mutant of add_job_loop: a job counts only where it has a concrete timestamp
add_job_loop_last_only(st, job, kind, timestamps, milestone) ==
    add_job_loop_slip(st, job, kind, timestamps, milestone, "last_only")

\* mutant of add_job_loop: the assert on absent cells is left out
add_job_loop_no_assert(st, job, kind, timestamps, milestone) ==
    add_job_loop_slip(st, job, kind, timestamps, milestone, "no_assert")

\* the body of the for loop of add_job, from index `milestone` on; `st` is
\* [buckets, latest_timestamp, ok]
RECURSIVE add_job_loop(_, _, _, _, _)
add_job_loop(st, job, kind, timestamps, milestone) ==
    IF milestone >= Len(timestamps) \/ ~st.ok THEN st
    ELSE LET timestamp == timestamps[milestone + 1]
             cell == st.buckets[kind][milestone]
         IN  IF is_none(cell)
             THEN IF is_none(timestamp)
                  THEN add_job_loop(st, job, kind, timestamps, milestone + 1)
                  ELSE [st EXCEPT !.ok = FALSE]
             ELSE LET bucket == unwrap(cell)
                      time_till_this_milestone ==
                          IF is_some(st.latest_timestamp)
                          THEN unwrap(timestamp) - unwrap(st.latest_timestamp)
                          ELSE 0
                      pushed == [bucket EXCEPT !.achieved = Append(@, job)]
                      updated ==
                          IF is_some(timestamp)
                          THEN [pushed EXCEPT !.cum_achieve_time = @ + time_till_this_milestone]
                          ELSE pushed
                      next ==
                          [buckets |-> [st.buckets EXCEPT ![kind][milestone] = Some(updated)],
                           latest_timestamp |->
                               IF is_some(timestamp) THEN timestamp ELSE st.latest_timestamp,
                           ok |-> TRUE]
                  IN  add_job_loop(next, job, kind, timestamps, milestone + 1)

\* ((milestone + 1)..N).find(|&ms| buckets[kind][ms].is_some()): the index of
\* the first present bucket of the row at or after `ms`, as an Option
RECURSIVE find_present_from(_, _, _)
find_present_from(buckets, kind, ms) ==
    IF ms >= N_of(buckets) THEN None
    ELSE IF is_some(buckets[kind][ms]) THEN Some(ms)
    ELSE find_present_from(buckets, kind, ms + 1)

\* mutant of bucket_after: the search starts at `milestone` itself
bucket_after_inclusive(buckets, kind, milestone) == find_present_from(buckets, kind, milestone)

bucket_after(buckets, kind, milestone) == find_present_from(buckets, kind, milestone + 1)

\* mutant of bucket_before: looks at the adjacent cell only, no backward search
bucket_before_adjacent(buckets, kind, milestone) ==
    IF milestone <= 0 THEN None
    ELSE IF is_some(buckets[kind][milestone - 1]) THEN Some(milestone - 1)
    ELSE None

\* (0..milestone).rev().find_map(|ms| buckets[kind][ms].as_ref()): the index of
\* the last present bucket of the row strictly before `ms`, as an Option
RECURSIVE bucket_before(_, _, _)
bucket_before(buckets, kind, milestone) ==
    IF milestone <= 0 THEN None
    ELSE IF is_some(buckets[kind][milestone - 1]) THEN Some(milestone - 1)
    ELSE bucket_before(buckets, kind, milestone - 1)

\* add_job with one of two slips: with lenient a job that was not lost may
\* have stopped anywhere and a loss with no bucket after the last milestone is
\* dropped; with loss_unmeasured the time to the loss is not accumulated
add_job_slip(buckets, job, kind, timestamps, loss_timestamp, slip) ==
    IF ~(Len(timestamps) > 0 /\ Len(timestamps) <= N_of(buckets))
    THEN [buckets |-> buckets, ok |-> FALSE]
    ELSE LET looped == add_job_loop(
                 [buckets |-> buckets, latest_timestamp |-> None, ok |-> TRUE],
                 job, kind, timestamps, 0)
             after == bucket_after(looped.buckets, kind, Len(timestamps) - 1)
         IN  IF ~looped.ok THEN [buckets |-> looped.buckets, ok |-> FALSE]
             ELSE IF is_some(loss_timestamp) /\ is_some(after)
             THEN LET loss_time ==
                          IF is_some(looped.latest_timestamp) /\ slip # "loss_unmeasured"
                          THEN unwrap(loss_timestamp) - unwrap(looped.latest_timestamp)
                          ELSE 0
                  IN  [buckets |->
                           [looped.buckets EXCEPT ![kind][unwrap(after)] =
                               Some([unwrap(@) EXCEPT !.cum_loss_time = @ + loss_time])],
                       ok |-> TRUE]
             ELSE [buckets |-> looped.buckets,
                   ok |-> slip = "lenient"
                          \/ (is_none(loss_timestamp) /\ Len(timestamps) = N_of(buckets))]

\* mutant of add_job: a job that was not lost may have stopped anywhere, and a
\* loss with no bucket after the last milestone is dropped
add_job_lenient(buckets, job, kind, timestamps, loss_timestamp) ==
    add_job_slip(buckets, job, kind, timestamps, loss_timestamp, "lenient")

\* mutant of add_job: a lost job adds no time to cum_loss_time
add_job_loss_unmeasured(buckets, job, kind, timestamps, loss_timestamp) ==
    add_job_slip(buckets, job, kind, timestamps, loss_timestamp, "loss_unmeasured")

add_job(buckets, job, kind, timestamps, loss_timestamp) ==
    IF ~(Len(timestamps) > 0 /\ Len(timestamps) <= N_of(buckets))
    THEN [buckets |-> buckets, ok |-> FALSE]
    ELSE LET looped == add_job_loop(
                 [buckets |-> buckets, latest_timestamp |-> None, ok |-> TRUE],
                 job, kind, timestamps, 0)
         IN  IF ~looped.ok THEN [buckets |-> looped.buckets, ok |-> FALSE]
             ELSE IF is_some(loss_timestamp)
             THEN LET loss_time ==
                          IF is_some(looped.latest_timestamp)
                          THEN unwrap(loss_timestamp) - unwrap(looped.latest_timestamp)
                          ELSE 0
                      after == bucket_after(looped.buckets, kind, Len(timestamps) - 1)
                  IN  IF is_none(after) THEN [buckets |-> looped.buckets, ok |-> FALSE]
                      ELSE [buckets |->
                                [looped.buckets EXCEPT ![kind][unwrap(after)] =
                                    Some([unwrap(@) EXCEPT !.cum_loss_time = @ + loss_time])],
                            ok |-> TRUE]
             ELSE [buckets |-> looped.buckets, ok |-> Len(timestamps) = N_of(buckets)]

get_bucket(buckets, kind, milestone) == buckets[kind][milestone]

RECURSIVE gcd(_, _)
gcd(a, b) == IF b = 0 THEN a ELSE gcd(b, a % b)

\* mutant of f64_div: the quotient is inverted
f64_div_inverted(num, den) == <<den \div gcd(num, den), num \div gcd(num, den)>>

\* num as f64 / den as f64 for den > 0: the quotient, kept as the fraction in
\* lowest terms (two such quotients are the same f64 iff the fractions agree)
f64_div(num, den) == <<num \div gcd(num, den), den \div gcd(num, den)>>

\* TimeDelta / i32 for a positive divisor: truncates toward zero
TimeDelta_div(delta, rhs) ==
    IF delta >= 0 THEN delta \div rhs ELSE 0 - ((0 - delta) \div rhs)

RECURSIVE sum_seq(_)
sum_seq(s) == IF s = <<>> THEN 0 ELSE Head(s) + sum_seq(Tail(s))

\* mutant of calc_stats: a kind without a bucket at the milestone is left out
\* of the sums instead of failing
calc_stats_skip_absent(buckets, milestone, kinds) ==
    LET present == SelectSeq(kinds, LAMBDA k : is_some(buckets[k][milestone]))
        bs == [i \in 1..Len(present) |-> unwrap(buckets[present[i]][milestone])]
        num_total == sum_seq([i \in 1..Len(present) |-> Len(bs[i].achieved)])
        num_potential ==
            sum_seq([i \in 1..Len(present) |->
                LET before == bucket_before(buckets, present[i], milestone)
                IN  IF is_some(before)
                    THEN Len(unwrap(buckets[present[i]][unwrap(before)]).achieved)
                    ELSE Len(bs[i].achieved)])
        total_time_to_achieve == sum_seq([i \in 1..Len(present) |-> bs[i].cum_achieve_time])
    IN  [ok |-> TRUE, num_total |-> num_total,
         conversion_rate |->
             IF num_potential = 0 THEN None ELSE Some(f64_div(num_total, num_potential)),
         average_time_to_achieve |->
             IF num_total = 0 THEN 0 ELSE TimeDelta_div(total_time_to_achieve, num_total)]

calc_stats(buckets, milestone, kinds) ==
    IF \E i \in 1..Len(kinds) : is_none(buckets[kinds[i]][milestone])
    THEN [ok |-> FALSE, num_total |-> 0, conversion_rate |-> None,
          average_time_to_achieve |-> 0]
    ELSE LET bs == [i \in 1..Len(kinds) |-> unwrap(buckets[kinds[i]][milestone])]
             num_total == sum_seq([i \in 1..Len(kinds) |-> Len(bs[i].achieved)])
             num_potential ==
                 sum_seq([i \in 1..Len(kinds) |->
                     LET before == bucket_before(buckets, kinds[i], milestone)
                     IN  IF is_some(before)
                         THEN Len(unwrap(buckets[kinds[i]][unwrap(before)]).achieved)
                         ELSE Len(bs[i].achieved)])
             conversion_rate ==
                 IF num_potential = 0 THEN None ELSE Some(f64_div(num_total, num_potential))
             total_time_to_achieve ==
                 sum_seq([i \in 1..Len(kinds) |-> bs[i].cum_achieve_time])
             average_time_to_achieve ==
                 IF num_total = 0 THEN 0 ELSE TimeDelta_div(total_time_to_achieve, num_total)
         IN  [ok |-> TRUE, num_total |-> num_total, conversion_rate |-> conversion_rate,
              average_time_to_achieve |-> average_time_to_achieve]

\* the inner loop of calc_stats_of_loss over one row, from index `ms` on; `acc`
\* is [last_achieved, total_num_lost, total_loss_time, ok].  The subtraction is
\* on usize: a negative difference is an arithmetic overflow, a panic in a
\* build with overflow checks.
RECURSIVE loss_row(_, _, _)
loss_row(row, ms, acc) ==
    IF ms >= Cardinality(DOMAIN row) \/ ~acc.ok THEN acc
    ELSE IF is_none(row[ms]) THEN loss_row(row, ms + 1, acc)
    ELSE LET bucket == unwrap(row[ms])
             counted ==
                 IF is_none(acc.last_achieved) THEN acc
                 ELSE LET num_lost == unwrap(acc.last_achieved) - Len(bucket.achieved)
                      IN  IF num_lost < 0 THEN [acc EXCEPT !.ok = FALSE]
                          ELSE [acc EXCEPT !.total_num_lost = @ + num_lost,
                                           !.total_loss_time = @ + bucket.cum_loss_time]
         IN  loss_row(row, ms + 1, [counted EXCEPT !.last_achieved = Some(Len(bucket.achieved))])

\* mutant of loss_rows: the rows are walked from the first milestone, without
\* the skip(1)
RECURSIVE loss_rows_from_lead(_, _, _)
loss_rows_from_lead(buckets, kind, acc) ==
    IF kind >= M_of(buckets) \/ ~acc.ok THEN acc
    ELSE loss_rows_from_lead(buckets, kind + 1,
                             loss_row(buckets[kind], 0, [acc EXCEPT !.last_achieved = None]))

RECURSIVE loss_rows(_, _, _)
loss_rows(buckets, kind, acc) ==
    IF kind >= M_of(buckets) \/ ~acc.ok THEN acc
    ELSE loss_rows(buckets, kind + 1,
                   loss_row(buckets[kind], 1, [acc EXCEPT !.last_achieved = None]))

calc_stats_of_loss(buckets) ==
    LET acc == loss_rows(buckets, 0,
                   [last_achieved |-> None, total_num_lost |-> 0,
                    total_loss_time |-> 0, ok |-> TRUE])
    IN  IF ~acc.ok
        THEN [ok |-> FALSE, total_num_lost |-> 0, average_loss_time |-> 0]
        ELSE [ok |-> TRUE, total_num_lost |-> acc.total_num_lost,
              average_loss_time |->
                  IF acc.total_num_lost = 0 THEN 0
                  ELSE TimeDelta_div(acc.total_loss_time, acc.total_num_lost)]

\* ------------------------------------------------------------------- jobs
\* mutant of date_of: the contingency and contract fields are swapped
date_of_swapped(milestone_dates, stage) ==
    CASE stage = LeadAcquired -> None
      [] stage = AppointmentMade -> milestone_dates.appointment_date
      [] stage = ContingencySigned -> milestone_dates.contract_date
      [] stage = ContractSigned -> milestone_dates.contingency_date
      [] stage = Installed -> milestone_dates.install_date

\* MilestoneDates as Index<Milestone>
date_of(milestone_dates, stage) ==
    CASE stage = LeadAcquired -> None
      [] stage = AppointmentMade -> milestone_dates.appointment_date
      [] stage = ContingencySigned -> milestone_dates.contingency_date
      [] stage = ContractSigned -> milestone_dates.contract_date
      [] stage = Installed -> milestone_dates.install_date

\* mutant of timestamps_up_to: take_while(s < stage) drops the last milestone
timestamps_up_to_exclusive(milestone_dates, stage) ==
    [i \in 1..stage |-> date_of(milestone_dates, i - 1)]

timestamps_up_to(milestone_dates, stage) ==
    [i \in 1..(stage + 1) |-> date_of(milestone_dates, i - 1)]

\* mutant of is_settled: every analysis counts as settled
is_settled_always(analysis) == Len(analysis.timestamps) <= MILESTONE_NUM_VARIANTS

is_settled(analysis) ==
    is_some(analysis.loss_timestamp) \/ Len(analysis.timestamps) = MILESTONE_NUM_VARIANTS

ContingencyWithoutInsurance == [tag |-> "ContingencyWithoutInsurance", arg |-> None]

InconsistentInsuranceInfo == [tag |-> "InconsistentInsuranceInfo", arg |-> None]

OutOfOrderDates(milestone_opt) == [tag |-> "OutOfOrderDates", arg |-> milestone_opt]

SkippedDates(milestone) == [tag |-> "SkippedDates", arg |-> Some(milestone)]

InvalidLoss == [tag |-> "InvalidLoss", arg |-> None]

\* mutant of initial_kind: the inconsistency needs both the company name and
\* the claim number
initial_kind_both(j) ==
    IF j.insurance_checkbox
    THEN [kind |-> InsuranceWithContingency, errors |-> <<>>]
    ELSE IF is_some(j.insurance_company_name) /\ is_some(j.insurance_claim_number)
         THEN [kind |-> InsuranceWithContingency, errors |-> <<InconsistentInsuranceInfo>>]
         ELSE [kind |-> Retail, errors |-> <<>>]

\* the initial classification of analyze_job: [kind, errors]
initial_kind(j) ==
    IF j.insurance_checkbox
    THEN [kind |-> InsuranceWithContingency, errors |-> <<>>]
    ELSE IF is_some(j.insurance_company_name) \/ is_some(j.insurance_claim_number)
         THEN [kind |-> InsuranceWithContingency, errors |-> <<InconsistentInsuranceInfo>>]
         ELSE [kind |-> Retail, errors |-> <<>>]

\* the retrace loop with one of five slips: with silent_reclassify a retail
\* job with a contingency date is reclassified without an anomaly; with
\* no_reclassify an insurance job is never moved to InsuranceWithoutContingency;
\* with contingency_stops an absent contingency date ends the retrace too;
\* with keep_retail a retail job with a contingency date is flagged but stays
\* Retail; with order_unchecked a date before the previous one is accepted
RECURSIVE retrace_slip(_, _, _, _)
retrace_slip(j, st, milestone, slip) ==
    IF milestone >= MILESTONE_NUM_VARIANTS \/ st.broke THEN st
    ELSE LET date == date_of(j.milestone_dates, milestone)
         IN  IF st.in_progress
             THEN IF is_some(date)
                  THEN LET k1 == IF /\ milestone = ContingencySigned /\ st.kind = Retail
                                    /\ slip # "keep_retail"
                                 THEN InsuranceWithContingency ELSE st.kind
                           e1 == IF /\ milestone = ContingencySigned /\ st.kind = Retail
                                    /\ slip # "silent_reclassify"
                                 THEN Append(st.errors, ContingencyWithoutInsurance)
                                 ELSE st.errors
                           k2 == IF /\ milestone > ContingencySigned
                                    /\ is_none(j.milestone_dates.contingency_date)
                                    /\ k1 = InsuranceWithContingency
                                    /\ slip # "no_reclassify"
                                 THEN InsuranceWithoutContingency ELSE k1
                           moved == [st EXCEPT !.current_milestone = milestone,
                                               !.kind = k2, !.errors = e1]
                       IN  IF /\ is_some(st.previous_date)
                              /\ unwrap(date) < unwrap(st.previous_date)
                              /\ slip # "order_unchecked"
                           THEN [moved EXCEPT
                                    !.errors = Append(@, OutOfOrderDates(Some(milestone))),
                                    !.broke = TRUE]
                           ELSE retrace_slip(j, [moved EXCEPT !.previous_date = date],
                                             milestone + 1, slip)
                  ELSE IF milestone # ContingencySigned \/ slip = "contingency_stops"
                       THEN retrace_slip(j, [st EXCEPT !.in_progress = FALSE], milestone + 1, slip)
                       ELSE retrace_slip(j, st, milestone + 1, slip)
             ELSE IF is_some(date)
                  THEN [st EXCEPT !.errors = Append(@, SkippedDates(milestone)),
                                  !.broke = TRUE]
                  ELSE retrace_slip(j, st, milestone + 1, slip)

\* mutant of retrace: no ContingencyWithoutInsurance for a reclassified retail job
retrace_silent_reclassify(j, st, milestone) == retrace_slip(j, st, milestone, "silent_reclassify")

\* mutant of retrace: insurance jobs keep InsuranceWithContingency
retrace_no_reclassify(j, st, milestone) == retrace_slip(j, st, milestone, "no_reclassify")

\* mutant of retrace: a retail job with a contingency date stays Retail
retrace_keep_retail(j, st, milestone) == retrace_slip(j, st, milestone, "keep_retail")

\* mutant of retrace: the order of the milestone dates is not checked
retrace_order_unchecked(j, st, milestone) == retrace_slip(j, st, milestone, "order_unchecked")

\* mutant of retrace: no exception for the contingency date
retrace_contingency_stops(j, st, milestone) == retrace_slip(j, st, milestone, "contingency_stops")

\* the retrace loop of analyze_job from `milestone` on; `st` is [kind,
\* previous_date, current_milestone, in_progress, errors, broke], where broke
\* records the `break 'analysis`
RECURSIVE retrace(_, _, _)
retrace(j, st, milestone) ==
    IF milestone >= MILESTONE_NUM_VARIANTS \/ st.broke THEN st
    ELSE LET date == date_of(j.milestone_dates, milestone)
         IN  IF st.in_progress
             THEN IF is_some(date)
                  THEN LET k1 == IF milestone = ContingencySigned /\ st.kind = Retail
                                 THEN InsuranceWithContingency ELSE st.kind
                           e1 == IF milestone = ContingencySigned /\ st.kind = Retail
                                 THEN Append(st.errors, ContingencyWithoutInsurance)
                                 ELSE st.errors
                           k2 == IF /\ milestone > ContingencySigned
                                    /\ is_none(j.milestone_dates.contingency_date)
                                    /\ k1 = InsuranceWithContingency
                                 THEN InsuranceWithoutContingency ELSE k1
                           moved == [st EXCEPT !.current_milestone = milestone,
                                               !.kind = k2, !.errors = e1]
                       IN  IF is_some(st.previous_date) /\ unwrap(date) < unwrap(st.previous_date)
                           THEN [moved EXCEPT
                                    !.errors = Append(@, OutOfOrderDates(Some(milestone))),
                                    !.broke = TRUE]
                           ELSE retrace(j, [moved EXCEPT !.previous_date = date], milestone + 1)
                  ELSE IF milestone # ContingencySigned
                       THEN retrace(j, [st EXCEPT !.in_progress = FALSE], milestone + 1)
                       ELSE retrace(j, st, milestone + 1)
             ELSE IF is_some(date)
                  THEN [st EXCEPT !.errors = Append(@, SkippedDates(milestone)),
                                  !.broke = TRUE]
                  ELSE retrace(j, st, milestone + 1)

\* analyze_job with one of three slips: with loss_after_install_only a loss
\* is invalid only after the install; with loss_order_kept a loss date before
\* the last milestone date is reported but the analysis is returned; with
\* normalise_job the returned job has its insurance box checked when the
\* insurance data was inconsistent
analyze_job_slip(j, slip) ==
    LET init == initial_kind(j)
        st == retrace(j, [kind |-> init.kind, previous_date |-> None,
                          current_milestone |-> LeadAcquired, in_progress |-> TRUE,
                          errors |-> init.errors, broke |-> FALSE], AppointmentMade)
        loss_date == j.milestone_dates.loss_date
        job == IF slip = "normalise_job" /\ init.errors # <<>>
               THEN [j EXCEPT !.insurance_checkbox = TRUE] ELSE j
        failed(errors) == [job |-> job, analysis |-> None, errors |-> errors]
        loss_out_of_order ==
            /\ is_some(loss_date)
            /\ is_some(st.previous_date)
            /\ unwrap(loss_date) < unwrap(st.previous_date)
        invalid_from == IF slip = "loss_after_install_only" THEN Installed ELSE ContractSigned
    IN  IF st.broke THEN failed(st.errors)
        ELSE IF loss_out_of_order /\ slip # "loss_order_kept"
        THEN failed(Append(st.errors, OutOfOrderDates(None)))
        ELSE [job |-> job,
              analysis |-> Some([kind |-> st.kind,
                                 timestamps |-> timestamps_up_to(j.milestone_dates,
                                                                 st.current_milestone),
                                 loss_timestamp |-> loss_date]),
              errors |-> IF loss_out_of_order
                         THEN Append(st.errors, OutOfOrderDates(None))
                         ELSE IF is_some(loss_date) /\ st.current_milestone >= invalid_from
                         THEN Append(st.errors, InvalidLoss) ELSE st.errors]

\* mutant of analyze_job: a loss after the contract is not flagged
analyze_job_loss_after_install_only(j) == analyze_job_slip(j, "loss_after_install_only")

\* mutant of analyze_job: an out-of-order loss date does not abort
analyze_job_loss_order_kept(j) == analyze_job_slip(j, "loss_order_kept")

\* mutant of analyze_job: the job is handed back with its insurance box fixed
analyze_job_normalise_job(j) == analyze_job_slip(j, "normalise_job")

\* (AnalyzedJob, Vec<JobAnalysisError>) as [job, analysis, errors]
analyze_job(j) ==
    LET init == initial_kind(j)
        st == retrace(j, [kind |-> init.kind, previous_date |-> None,
                          current_milestone |-> LeadAcquired, in_progress |-> TRUE,
                          errors |-> init.errors, broke |-> FALSE], AppointmentMade)
        loss_date == j.milestone_dates.loss_date
        failed(errors) == [job |-> j, analysis |-> None, errors |-> errors]
    IN  IF st.broke THEN failed(st.errors)
        ELSE IF /\ is_some(loss_date)
                /\ is_some(st.previous_date)
                /\ unwrap(loss_date) < unwrap(st.previous_date)
        THEN failed(Append(st.errors, OutOfOrderDates(None)))
        ELSE [job |-> j,
              analysis |-> Some([kind |-> st.kind,
                                 timestamps |-> timestamps_up_to(j.milestone_dates,
                                                                 st.current_milestone),
                                 loss_timestamp |-> loss_date]),
              errors |-> IF is_some(loss_date) /\ st.current_milestone >= ContractSigned
                         THEN Append(st.errors, InvalidLoss) ELSE st.errors]

\* ---------------------------------------------------------------- job_kpi
StandardMask ==
    LET full == [ms \in 0..(MILESTONE_NUM_VARIANTS - 1) |-> TRUE]
        no_contingency == [full EXCEPT ![ContingencySigned] = FALSE]
    IN  [kind \in 0..(JOBKIND_NUM_VARIANTS - 1) |->
            IF kind = InsuranceWithContingency THEN full ELSE no_contingency]

build_job_tracker == JobTracker_new(StandardMask)

\* one iteration of the loop of process_jobs on job j.  The Rc<AnalyzedJob>
\* handle pushed into buckets and red flags is modelled by the job's jnid.
\* Returns [global_tracker, rep_specific_trackers, red_flags, analyzed, ok].
process_job(global_tracker, rep_trackers, flags, j) ==
    LET a == analyze_job(j)
        rep == j.sales_rep
        unchanged == [global_tracker |-> global_tracker, rep_specific_trackers |-> rep_trackers,
                      red_flags |-> flags, analyzed |-> a, ok |-> TRUE]
        flagged(st) ==
            [st EXCEPT !.red_flags =
                [flags EXCEPT ![rep] =
                    Some((IF is_some(@) THEN unwrap(@) ELSE <<>>)
                         \o [i \in 1..Len(a.errors) |-> <<j.jnid, a.errors[i]>>])]]
    IN  IF is_some(a.analysis) /\ is_settled(unwrap(a.analysis))
        THEN LET analysis == unwrap(a.analysis)
                 g == add_job(global_tracker, j.jnid, analysis.kind,
                              analysis.timestamps, analysis.loss_timestamp)
                 entry == IF is_some(rep_trackers[rep]) THEN unwrap(rep_trackers[rep])
                          ELSE build_job_tracker
                 r == add_job(entry, j.jnid, analysis.kind,
                              analysis.timestamps, analysis.loss_timestamp)
             IN  IF ~g.ok
                 THEN [unchanged EXCEPT !.global_tracker = g.buckets, !.ok = FALSE]
                 ELSE IF ~r.ok
                 THEN [unchanged EXCEPT !.global_tracker = g.buckets,
                                        !.rep_specific_trackers =
                                            [rep_trackers EXCEPT ![rep] = Some(r.buckets)],
                                        !.ok = FALSE]
                 ELSE flagged([unchanged EXCEPT
                                  !.global_tracker = g.buckets,
                                  !.rep_specific_trackers =
                                      [rep_trackers EXCEPT ![rep] = Some(r.buckets)]])
        ELSE flagged(unchanged)

\* ------------------------------------------------------------------ oauth
\* a TokenWithExpiration: where it came from, the run that obtained it,
\* whether it carries a refresh token and whether it states expires_in
TokenOf(origin, run, refresh_token, expires_in) ==
    [origin |-> origin, run |-> run, refresh_token |-> refresh_token,
     expires_in |-> expires_in]

NoToken == TokenOf("none", 0, FALSE, FALSE)

\* the cache file: absent, not deserializable, or holding a token
FileAbsent == [state |-> "absent", token |-> NoToken]

FileGarbage == [state |-> "garbage", token |-> NoToken]

FileOf(token) == [state |-> "token", token |-> token]

\* run_with_credentials before a run: no token at hand, nothing done
NoRun ==
    [file |-> FileAbsent, file_at_start |-> FileAbsent, known_expired |-> FALSE,
     expired_token |-> None, token |-> NoToken, events |-> <<>>, outcome |-> "none",
     runs |-> 0]

\* get_cached_token: None, or the token with whether it is known to be
\* expired; `readable` is whether the file opens and `now_past_expiry`
\* whether time_obtained + expires_in <= Utc::now()
get_cached_token(file, readable, now_past_expiry) ==
    IF file.state # "token" \/ ~readable THEN None
    ELSE Some([token |-> file.token,
               is_expired |-> file.token.expires_in /\ now_past_expiry])

\* mutant of writes_cache: every successful operation caches its token
writes_cache_always(source, res) == res = "Ok"

\* whether run_with_credentials writes the cache file after the operation
\* returned `res` for the token of `source`
writes_cache(source, res) == res = "Ok" /\ source \in {"refreshed", "fresh"}

\* mutant of next_step: any error of the operation moves on to the next
\* credential source
next_step_on_any_error(source, res) ==
    IF res = "Ok" THEN "returned"
    ELSE IF source = "cached" THEN "refresh"
    ELSE IF source = "refreshed" THEN "fresh"
    ELSE "returned"

\* where run_with_credentials goes after the operation returned `res` for
\* the token of `source`
next_step(source, res) ==
    IF res = "Unauthorized" /\ source = "cached" THEN "refresh"
    ELSE IF res = "Unauthorized" /\ source = "refreshed" THEN "fresh"
    ELSE "returned"

\* File::create(cache_file)? followed by serde_json::to_writer(writer, token)?:
\* io is "ok", "create_failed" (the file is left as it was), "write_failed"
\* (the file was truncated and holds no token, the run returns the error) or
\* "flush_lost" (the BufWriter failed to flush when dropped: no error is seen)
write_cache(file, token, io) ==
    CASE io = "ok" -> [file |-> FileOf(token), ok |-> TRUE]
      [] io = "create_failed" -> [file |-> file, ok |-> FALSE]
      [] io = "write_failed" -> [file |-> FileGarbage, ok |-> FALSE]
      [] io = "flush_lost" -> [file |-> FileGarbage, ok |-> TRUE]

\* one `match operation(&token).await` of run_with_credentials, with what
\* follows it up to the next await or the return; returns the next [oauth, pc]
try_operation(o, source, res, io) ==
    LET tried == [o EXCEPT !.events =
                     Append(@, [ev |-> "operation", source |-> source,
                                token |-> o.token, result |-> res])]
        next == next_step(source, res)
    IN  IF writes_cache(source, res)
        THEN LET w == write_cache(o.file, o.token, io)
             IN  [oauth |-> [tried EXCEPT
                                !.file = w.file,
                                !.events = IF io = "create_failed" THEN @
                                           ELSE Append(@, [ev |-> "write", source |-> source,
                                                           token |-> o.token, result |-> io]),
                                !.outcome = IF w.ok THEN "ok" ELSE "err"],
                  pc |-> "returned"]
        ELSE [oauth |-> [tried EXCEPT
                            !.expired_token =
                                IF source = "cached" /\ next = "refresh"
                                THEN Some(o.token) ELSE @,
                            !.outcome = IF next # "returned" THEN @
                                        ELSE IF res = "Ok" THEN "ok" ELSE "err"],
              pc |-> next]

\* ------------------------------------------------------------------ inputs
Kinds == 0..(JOBKIND_NUM_VARIANTS - 1)

Milestones == 0..(MILESTONE_NUM_VARIANTS - 1)

Times == 1..MaxTime

OptTimes == Option(Times)

Reps == {None, Some("rep")}

\* every job over the timestamps 1..MaxTime
Jobs(jnid) ==
    [jnid : {jnid},
     milestone_dates : [appointment_date : OptTimes, contingency_date : OptTimes,
                        contract_date : OptTimes, install_date : OptTimes,
                        loss_date : OptTimes],
     sales_rep : Reps,
     insurance_checkbox : BOOLEAN,
     insurance_claim_number : Option({"123"}),
     insurance_company_name : Option({"Gekko"})]

\* the fixture builder of the tests of jobs.rs
make_job(insurance, date_1, date_2, date_3, date_4, date_5) ==
    [jnid |-> 0,
     milestone_dates |-> [appointment_date |-> date_1, contingency_date |-> date_2,
                          contract_date |-> date_3, install_date |-> date_4,
                          loss_date |-> date_5],
     sales_rep |-> None,
     insurance_checkbox |-> insurance,
     insurance_claim_number |-> IF insurance THEN Some("123") ELSE None,
     insurance_company_name |-> IF insurance THEN Some("Gekko") ELSE None]

\* the jobs of the tests of jobs.rs, and one job for each anomaly and each
\* point of loss the tests leave out
FixtureJobs ==
    { make_job(FALSE, Some(1), None, Some(3), Some(4), None),
      make_job(FALSE, Some(1), Some(2), Some(3), Some(4), None),
      make_job(TRUE, Some(1), None, Some(3), Some(4), None),
      make_job(TRUE, Some(1), Some(2), Some(3), Some(4), None),
      make_job(TRUE, None, None, None, None, None),
      make_job(TRUE, Some(1), None, None, None, None),
      make_job(TRUE, Some(1), Some(2), None, None, None),
      make_job(TRUE, Some(1), Some(2), Some(3), None, None),
      make_job(TRUE, Some(1), None, None, None, Some(5)),
      make_job(FALSE, Some(1), None, Some(3), Some(4), Some(5)),
      [make_job(FALSE, Some(1), None, Some(3), Some(4), None)
          EXCEPT !.insurance_claim_number = Some("123"),
                 !.insurance_company_name = Some("Gekko")],
      make_job(FALSE, None, None, None, None, Some(5)),
      make_job(FALSE, Some(1), None, None, None, Some(3)),
      make_job(TRUE, Some(1), Some(2), None, None, Some(5)),
      make_job(TRUE, Some(1), Some(2), Some(3), None, Some(5)),
      make_job(TRUE, Some(2), Some(1), None, None, None),
      make_job(FALSE, None, None, Some(3), None, None),
      make_job(TRUE, Some(3), None, None, None, Some(1)) }

BatchJobs(jnid) ==
    {[j EXCEPT !.jnid = jnid, !.sales_rep = rep] : j \in FixtureJobs, rep \in Reps}

\* timestamp slices: the LeadAcquired entry is None, as in every caller; the
\* empty slice and a slice longer than the grid are there for the length check
SlicesOfLen(n) == {<<None>> \o s : s \in [1..(n - 1) -> OptTimes]}

TimestampSlices ==
    UNION {SlicesOfLen(n) : n \in 1..MILESTONE_NUM_VARIANTS}
    \cup {<<>>, [i \in 1..(MILESTONE_NUM_VARIANTS + 1) |-> None]}

\* the timeline of the test fixtures (milestone i on day i), cut after `len`
\* entries, for a job of the given kind
fixture_slice(kind, len) ==
    [i \in 1..len |->
        IF i - 1 = LeadAcquired \/ ~StandardMask[kind][i - 1] THEN None ELSE Some(i - 1)]

StatInputs ==
    {[kind |-> kind, timestamps |-> fixture_slice(kind, len), loss_timestamp |-> loss] :
        kind \in Kinds, len \in 1..MILESTONE_NUM_VARIANTS,
        loss \in {None, Some(MILESTONE_NUM_VARIANTS)}}

\* lists of kinds handed to calc_stats: the subsets of the kinds, ascending
KindLists ==
    {<<>>, <<0>>, <<1>>, <<2>>, <<0, 1>>, <<0, 2>>, <<1, 2>>, <<0, 1, 2>>}

\* --------------------------------------------------------- state machines
NoCall ==
    [op |-> "new", job |-> 0, kind |-> 0, timestamps |-> <<>>, loss_timestamp |-> None,
     milestone |-> 0, kinds |-> <<>>]

InitCommon ==
    /\ tracker = build_job_tracker
    /\ pre = tracker
    /\ call = NoCall
    /\ result = None
    /\ panicked = FALSE
    /\ n_calls = 0
    /\ rep_specific_trackers = [rep \in Reps |-> None]
    /\ red_flags = [rep \in Reps |-> None]
    /\ analyzed = None
    /\ analyzed_again = None
    /\ tracker_mask = StandardMask
    /\ log = <<>>
    /\ oauth = NoRun

AddJob(kind, timestamps, loss_timestamp) ==
    /\ LET r == add_job(tracker, n_calls + 1, kind, timestamps, loss_timestamp)
       IN  /\ tracker' = r.buckets
           /\ panicked' = ~r.ok
    /\ pre' = tracker
    /\ call' = [NoCall EXCEPT !.op = "add_job", !.job = n_calls + 1, !.kind = kind,
                              !.timestamps = timestamps,
                              !.loss_timestamp = loss_timestamp]
    /\ result' = None
    /\ n_calls' = n_calls + 1
    /\ log' = Append(log, [kind |-> kind, timestamps |-> timestamps,
                           loss_timestamp |-> loss_timestamp])
    /\ UNCHANGED <<rep_specific_trackers, red_flags, input_job, analyzed,
                   analyzed_again, tracker_mask, oauth>>

CalcStats(milestone, kinds) ==
    /\ LET r == calc_stats(tracker, milestone, kinds)
       IN  /\ result' = IF r.ok THEN Some(r) ELSE None
           /\ panicked' = ~r.ok
    /\ pre' = tracker
    /\ call' = [NoCall EXCEPT !.op = "calc_stats", !.milestone = milestone, !.kinds = kinds]
    /\ pc' = "queried"
    /\ UNCHANGED <<tracker, n_calls, rep_specific_trackers, red_flags, input_job, analyzed,
                   analyzed_again, tracker_mask, log, oauth>>

CalcStatsOfLoss ==
    /\ pc = "tracker"
    /\ ~panicked
    /\ LET r == calc_stats_of_loss(tracker)
       IN  /\ result' = IF r.ok THEN Some(r) ELSE None
           /\ panicked' = ~r.ok
    /\ pre' = tracker
    /\ call' = [NoCall EXCEPT !.op = "calc_stats_of_loss"]
    /\ pc' = "queried"
    /\ UNCHANGED <<tracker, n_calls, rep_specific_trackers, red_flags, input_job, analyzed,
                   analyzed_again, tracker_mask, log, oauth>>

InitTracker ==
    /\ InitCommon
    /\ input_job = None
    /\ pc = "tracker"

\* SpecTracker: a tracker holding at most MaxAdds jobs of the fixture timeline
\* receives one add_job call over every input, which ends the run
AddFixtureJob ==
    /\ pc = "tracker" /\ ~panicked /\ n_calls < MaxAdds
    /\ \E in \in StatInputs :
        /\ AddJob(in.kind, in.timestamps, in.loss_timestamp)
        /\ pc' = pc

AddAnyJob ==
    /\ pc = "tracker" /\ ~panicked
    /\ \E kind \in Kinds, timestamps \in TimestampSlices, loss_timestamp \in OptTimes :
        /\ AddJob(kind, timestamps, loss_timestamp)
        /\ pc' = "added"

NextTracker == AddFixtureJob \/ AddAnyJob

SpecTracker == InitTracker /\ [][NextTracker]_vars

\* SpecMask: JobTracker::new over a choice of masks, then add_job calls with the
\* fixture timeline, which fits some of the masks and breaks the others
MaskRows ==
    LET full == [ms \in 0..(MILESTONE_NUM_VARIANTS - 1) |-> TRUE]
    IN  {full,
         [full EXCEPT ![ContingencySigned] = FALSE],
         [ms \in 0..(MILESTONE_NUM_VARIANTS - 1) |-> ms \in {ContingencySigned, Installed}]}

Masks == [0..(JOBKIND_NUM_VARIANTS - 1) -> MaskRows]

InitMask ==
    /\ tracker_mask \in Masks
    /\ tracker = JobTracker_new(tracker_mask)
    /\ pre = tracker
    /\ call = NoCall
    /\ result = None
    /\ panicked = FALSE
    /\ n_calls = 0
    /\ rep_specific_trackers = [rep \in Reps |-> None]
    /\ red_flags = [rep \in Reps |-> None]
    /\ analyzed = None
    /\ analyzed_again = None
    /\ log = <<>>
    /\ oauth = NoRun
    /\ input_job = None
    /\ pc = "tracker"

AddMaskJob ==
    /\ pc = "tracker" /\ ~panicked /\ n_calls < MaxAdds + 1
    /\ \E in \in StatInputs :
        /\ AddJob(in.kind, in.timestamps, in.loss_timestamp)
        /\ pc' = pc

NextMask == AddMaskJob

SpecMask == InitMask /\ [][NextMask]_vars

\* SpecStats: a tracker filled through add_job, then queried.  The queries
\* take &self: a run ends with its first query, a later one would see the same
\* tracker.
AddStatJob ==
    /\ pc = "tracker" /\ ~panicked /\ n_calls < MaxStatAdds
    /\ \E in \in StatInputs :
        /\ AddJob(in.kind, in.timestamps, in.loss_timestamp)
        /\ pc' = pc

QueryStats ==
    /\ pc = "tracker" /\ ~panicked
    /\ \E milestone \in Milestones, kinds \in KindLists : CalcStats(milestone, kinds)

NextStats == AddStatJob \/ QueryStats \/ CalcStatsOfLoss

SpecStats == InitTracker /\ [][NextStats]_vars

\* SpecAnalyze: analyze_job applied to one job
InitAnalyze ==
    /\ InitCommon
    /\ input_job \in {Some(j) : j \in Jobs(1)}
    /\ pc = "analyze"

Analyze ==
    /\ pc = "analyze"
    /\ analyzed' = Some(analyze_job(unwrap(input_job)))
    /\ pc' = "analyzed"
    /\ UNCHANGED <<tracker, pre, call, result, panicked, n_calls, rep_specific_trackers,
                   red_flags, input_job, analyzed_again, tracker_mask, log, oauth>>

\* a second call of analyze_job, on the job the first call handed back
Reanalyze ==
    /\ pc = "analyzed"
    /\ analyzed_again' = Some(analyze_job(unwrap(analyzed).job))
    /\ pc' = "reanalyzed"
    /\ UNCHANGED <<tracker, pre, call, result, panicked, n_calls, rep_specific_trackers,
                   red_flags, input_job, analyzed, tracker_mask, log, oauth>>

NextAnalyze == Analyze \/ Reanalyze

SpecAnalyze == InitAnalyze /\ [][NextAnalyze]_vars

\* SpecOauth: run_with_credentials, called up to MaxRuns times on one cache
\* file; the operation, the token endpoint, the authorization flow, the clock
\* and the file system answer as they please
OperationResults == {"Ok", "Unauthorized", "Other"}

IoOutcomes == {"ok", "create_failed", "write_failed", "flush_lost"}

CacheFiles ==
    {FileAbsent, FileGarbage}
    \cup {FileOf(TokenOf("initial", 0, r, e)) : r \in BOOLEAN, e \in BOOLEAN}

InitOauth ==
    /\ tracker = build_job_tracker
    /\ pre = tracker
    /\ call = NoCall
    /\ result = None
    /\ panicked = FALSE
    /\ n_calls = 0
    /\ rep_specific_trackers = [rep \in Reps |-> None]
    /\ red_flags = [rep \in Reps |-> None]
    /\ analyzed = None
    /\ analyzed_again = None
    /\ tracker_mask = StandardMask
    /\ log = <<>>
    /\ input_job = None
    /\ \E file \in CacheFiles :
           oauth = [NoRun EXCEPT !.file = file, !.file_at_start = file, !.runs = 1]
    /\ pc = "start"

OauthFrame ==
    UNCHANGED <<tracker, pre, call, result, panicked, n_calls, rep_specific_trackers,
                red_flags, input_job, analyzed, analyzed_again, tracker_mask, log>>

\* match get_cached_token(cache_file): the arms that do not call the operation
GetCachedToken ==
    /\ pc = "start"
    /\ \E readable \in BOOLEAN, now_past_expiry \in BOOLEAN :
        LET cached == get_cached_token(oauth.file, readable, now_past_expiry)
        IN  IF is_none(cached)
            THEN /\ oauth' = oauth
                 /\ pc' = "refresh"
            ELSE IF unwrap(cached).is_expired
            THEN /\ oauth' = [oauth EXCEPT !.known_expired = TRUE,
                                           !.expired_token = Some(unwrap(cached).token)]
                 /\ pc' = "refresh"
            ELSE /\ oauth' = [oauth EXCEPT !.token = unwrap(cached).token]
                 /\ pc' = "try_cached"
    /\ OauthFrame

\* operation(&cached_token.token).await and its three arms
TryCached ==
    /\ pc = "try_cached"
    /\ \E res \in OperationResults :
        LET r == try_operation(oauth, "cached", res, "ok")
        IN  oauth' = r.oauth /\ pc' = r.pc
    /\ OauthFrame

\* the 'refresh block up to the operation
Refresh ==
    /\ pc = "refresh"
    /\ IF is_none(oauth.expired_token) \/ ~unwrap(oauth.expired_token).refresh_token
       THEN oauth' = oauth /\ pc' = "fresh"
       ELSE \E refreshed \in BOOLEAN, expires_in \in BOOLEAN :
            /\ oauth' = [oauth EXCEPT
                            !.events = Append(@, [ev |-> "refresh", source |-> "refreshed",
                                                  token |-> unwrap(oauth.expired_token),
                                                  result |-> IF refreshed THEN "Ok" ELSE "Err"]),
                            !.token = IF refreshed
                                      THEN TokenOf("refreshed", oauth.runs, TRUE, expires_in)
                                      ELSE @]
            /\ pc' = IF refreshed THEN "try_refreshed" ELSE "fresh"
    /\ OauthFrame

\* operation(&refreshed_token.token).await and its three arms
TryRefreshed ==
    /\ pc = "try_refreshed"
    /\ \E res \in OperationResults, io \in IoOutcomes :
        LET r == try_operation(oauth, "refreshed", res, io)
        IN  oauth' = r.oauth /\ pc' = r.pc
    /\ OauthFrame

\* get_fresh_credentials().await
GetFresh ==
    /\ pc = "fresh"
    /\ \E obtained \in BOOLEAN, refresh_token \in BOOLEAN, expires_in \in BOOLEAN :
        /\ oauth' = [oauth EXCEPT
                        !.events = Append(@, [ev |-> "fresh", source |-> "fresh",
                                              token |-> NoToken,
                                              result |-> IF obtained THEN "Ok" ELSE "Err"]),
                        !.token = IF obtained
                                  THEN TokenOf("fresh", oauth.runs, refresh_token, expires_in)
                                  ELSE @,
                        !.outcome = IF obtained THEN @ ELSE "err"]
        /\ pc' = IF obtained THEN "try_fresh" ELSE "returned"
    /\ OauthFrame

\* operation(&fresh_token.token).await and its three arms
TryFresh ==
    /\ pc = "try_fresh"
    /\ \E res \in OperationResults, io \in IoOutcomes :
        LET r == try_operation(oauth, "fresh", res, io)
        IN  oauth' = r.oauth /\ pc' = r.pc
    /\ OauthFrame

\* the next call of run_with_credentials finds the file the last one left
NextRun ==
    /\ pc = "returned"
    /\ oauth.runs < MaxRuns
    /\ oauth' = [NoRun EXCEPT !.file = oauth.file, !.file_at_start = oauth.file,
                              !.runs = oauth.runs + 1]
    /\ pc' = "start"
    /\ OauthFrame

NextOauth ==
    \/ GetCachedToken
    \/ TryCached
    \/ Refresh
    \/ TryRefreshed
    \/ GetFresh
    \/ TryFresh
    \/ NextRun

SpecOauth == InitOauth /\ [][NextOauth]_vars

\* Spec: process_jobs over a batch of at most MaxJobs jobs
Init ==
    /\ InitCommon
    /\ input_job = None
    /\ pc = "loop"

ProcessJob(j) ==
    /\ LET r == process_job(tracker, rep_specific_trackers, red_flags, j)
       IN  /\ tracker' = r.global_tracker
           /\ rep_specific_trackers' = r.rep_specific_trackers
           /\ red_flags' = r.red_flags
           /\ analyzed' = Some(r.analyzed)
           /\ panicked' = ~r.ok
           /\ log' = Append(log, r.analyzed)
    /\ input_job' = Some(j)
    /\ pre' = tracker
    /\ call' = [NoCall EXCEPT !.op = "process_job", !.job = j.jnid]
    /\ n_calls' = n_calls + 1
    /\ UNCHANGED <<result, analyzed_again, tracker_mask, oauth, pc>>

Return ==
    /\ pc = "loop"
    /\ ~panicked
    /\ pc' = "done"
    /\ UNCHANGED <<tracker, pre, call, result, panicked, n_calls, rep_specific_trackers,
                   red_flags, input_job, analyzed,
                   analyzed_again, tracker_mask, log, oauth>>

NextJob ==
    /\ pc = "loop" /\ ~panicked /\ n_calls < MaxJobs
    /\ \E j \in BatchJobs(n_calls + 1) : ProcessJob(j)

Next == NextJob \/ Return

Spec == Init /\ [][Next]_vars

\* ================================================================= claims
\* the four dated milestones of a job, by milestone index 1..4
DateAt(j, i) ==
    <<j.milestone_dates.appointment_date, j.milestone_dates.contingency_date,
      j.milestone_dates.contract_date, j.milestone_dates.install_date>>[i]

HasError(errors, e) == \E n \in 1..Len(errors) : errors[n] = e

HasTag(errors, tag) == \E n \in 1..Len(errors) : errors[n].tag = tag

\* the last job was handed to add_job: its analysis exists and has a loss
\* timestamp or all five timestamps
AnalysisSettled(a) ==
    /\ a.analysis # <<>>
    /\ \/ a.analysis[1].loss_timestamp # <<>>
       \/ Len(a.analysis[1].timestamps) = 5

\* C1: data anomalies never abort the batch: process_jobs never hits a
\* contract violation of the tracker, whatever jobs it is given.
C1_BatchNeverAborts == ~panicked

\* C2 (as stated): whenever the dates of two adjacent milestones i-1 and i are
\* both present and out of order, the analysis is None and the anomalies
\* include OutOfOrderDates(Some(i)).
OutOfOrderPair(j, i) ==
    /\ i \in 2..4
    /\ DateAt(j, i - 1) # <<>>
    /\ DateAt(j, i) # <<>>
    /\ DateAt(j, i)[1] < DateAt(j, i - 1)[1]

C2_OutOfOrderAlwaysReported ==
    pc = "analyzed" =>
        \A i \in 2..4 :
            OutOfOrderPair(input_job[1], i) =>
                /\ analyzed[1].analysis = <<>>
                /\ HasError(analyzed[1].errors, [tag |-> "OutOfOrderDates", arg |-> <<i>>])

\* the retrace reaches milestone i and compares its date: the appointment date
\* is present and the present dates before milestone i are in order
RetraceReaches(j, i) ==
    /\ DateAt(j, 1) # <<>>
    /\ \A a \in 1..(i - 1), b \in 1..(i - 1) :
           (a < b /\ DateAt(j, a) # <<>> /\ DateAt(j, b) # <<>>)
               => DateAt(j, a)[1] <= DateAt(j, b)[1]

\* C2 (amended): an out-of-order adjacent pair at i always yields no analysis;
\* the last anomaly is OutOfOrderDates(Some(i)) when the retrace reaches
\* milestone i, and otherwise the aborting anomaly of an earlier milestone,
\* with no OutOfOrderDates(Some(i)) reported.
C2_OutOfOrderAborts ==
    pc = "analyzed" =>
        \A i \in 2..4 :
            OutOfOrderPair(input_job[1], i) =>
                LET errors == analyzed[1].errors
                    last == errors[Len(errors)]
                IN  /\ analyzed[1].analysis = <<>>
                    /\ Len(errors) > 0
                    /\ RetraceReaches(input_job[1], i)
                           => last = [tag |-> "OutOfOrderDates", arg |-> <<i>>]
                    /\ ~RetraceReaches(input_job[1], i)
                           => /\ \E k \in 1..(i - 1) :
                                     \/ last = [tag |-> "OutOfOrderDates", arg |-> <<k>>]
                                     \/ last = [tag |-> "SkippedDates", arg |-> <<k>>]
                              /\ ~HasError(errors, [tag |-> "OutOfOrderDates", arg |-> <<i>>])

\* witness of C2: an analysed job whose contract date precedes its contingency
\* date, reached in order, and with a loss date and insurance data around it
C2_Witness ==
    /\ pc = "analyzed"
    /\ OutOfOrderPair(input_job[1], 3)
    /\ RetraceReaches(input_job[1], 3)
    /\ input_job[1].milestone_dates.loss_date # <<>>
    /\ ~input_job[1].insurance_checkbox

\* C3: a job with all four dates present and non-decreasing and no loss date
\* is analysed into five timestamps, is settled, and carries no
\* OutOfOrderDates and no SkippedDates, whatever its insurance data.
CompleteMonotonic(j) ==
    /\ \A i \in 1..4 : DateAt(j, i) # <<>>
    /\ \A i \in 2..4 : DateAt(j, i - 1)[1] <= DateAt(j, i)[1]
    /\ j.milestone_dates.loss_date = <<>>

C3_CompleteJobAnalysed ==
    (pc = "analyzed" /\ CompleteMonotonic(input_job[1])) =>
        /\ analyzed[1].analysis # <<>>
        /\ Len(analyzed[1].analysis[1].timestamps) = 5
        /\ AnalysisSettled(analyzed[1])
        /\ ~HasTag(analyzed[1].errors, "OutOfOrderDates")
        /\ ~HasTag(analyzed[1].errors, "SkippedDates")

\* witness of C3: such a job with dates that rise, analysed, with the
\* insurance box unchecked but a claim number present
C3_Witness ==
    /\ pc = "analyzed"
    /\ CompleteMonotonic(input_job[1])
    /\ DateAt(input_job[1], 1)[1] < DateAt(input_job[1], 4)[1]
    /\ ~input_job[1].insurance_checkbox
    /\ input_job[1].insurance_claim_number # <<>>

\* C6: an analysis is settled iff it has a loss timestamp or all five
\* timestamps, and a job without a settled analysis changes no bucket of the
\* global tracker or of any sales rep's tracker.
C6_UnsettledChangesNothing ==
    [][(n_calls' = n_calls + 1 /\ ~AnalysisSettled(analyzed'[1]))
          => (tracker' = tracker /\ rep_specific_trackers' = rep_specific_trackers)]_vars

\* witness of C6: after a job has been recorded, a job with an unsettled
\* analysis was processed
C6_Witness ==
    /\ n_calls >= 2
    /\ ~panicked
    /\ Len(tracker[0][0][1].achieved) + Len(tracker[2][0][1].achieved) > 0
    /\ analyzed[1].analysis # <<>>
    /\ ~AnalysisSettled(analyzed[1])
    /\ tracker = pre

\* ---- helpers of the tracker claims
RECURSIVE SumFn(_, _)
SumFn(f, S) ==
    IF S = {} THEN 0
    ELSE LET x == CHOOSE y \in S : TRUE IN f[x] + SumFn(f, S \ {x})

Max(S) == CHOOSE x \in S : \A y \in S : x >= y

Count(b, k, m) == Len(b[k][m][1].achieved)

\* present buckets of row k before milestone m
PresentBefore(b, k, m) == {x \in 0..(m - 1) : b[k][x] # <<>>}

\* the denominator of the conversion rate for one kind
PotentialOf(b, k, m) ==
    IF PresentBefore(b, k, m) = {} THEN Count(b, k, m)
    ELSE Count(b, k, Max(PresentBefore(b, k, m)))

Potential(b, m, kinds) ==
    SumFn([i \in 1..Len(kinds) |-> PotentialOf(b, kinds[i], m)], 1..Len(kinds))

NumTotal(b, m, kinds) ==
    SumFn([i \in 1..Len(kinds) |-> Count(b, kinds[i], m)], 1..Len(kinds))

StatsReturned == call.op = "calc_stats" /\ result # <<>>

Transitions(b, k) ==
    {t \in (1..4) \X (1..4) :
        /\ t[1] < t[2]
        /\ b[k][t[1]] # <<>>
        /\ b[k][t[2]] # <<>>
        /\ \A x \in (t[1] + 1)..(t[2] - 1) : b[k][x] = <<>>}

AllTransitions(b) ==
    {x \in (0..2) \X (1..4) \X (1..4) : <<x[2], x[3]>> \in Transitions(b, x[1])}

LossCount(b) ==
    SumFn([t \in AllTransitions(b) |-> Count(b, t[1], t[2]) - Count(b, t[1], t[3])],
          AllTransitions(b))

LossTime(b) ==
    SumFn([t \in AllTransitions(b) |-> b[t[1]][t[3]][1].cum_loss_time], AllTransitions(b))

\* C10: calc_stats_of_loss returns the losses summed over every kind and every
\* pair of consecutive present buckets at milestones >= 1, with the average
\* loss time = (sum of the later buckets' cum_loss_time) / losses, and a zero
\* average when nothing was lost.
C10_StatsOfLoss ==
    call.op = "calc_stats_of_loss" =>
        /\ result # <<>>
        /\ result[1].total_num_lost = LossCount(tracker)
        /\ LossCount(tracker) = 0 => result[1].average_loss_time = 0
        /\ LossCount(tracker) > 0
               => result[1].average_loss_time = LossTime(tracker) \div LossCount(tracker)

\* witness of C10: losses in two rows, a lead lost before its appointment that
\* is not counted, and a positive average loss time
C10_Witness ==
    /\ call.op = "calc_stats_of_loss"
    /\ result # <<>>
    /\ result[1].total_num_lost = 2
    /\ result[1].average_loss_time > 0
    /\ \E k \in 0..2 : Count(tracker, k, 0) > Count(tracker, k, 1)
    /\ \E k1 \in 0..2, k2 \in 0..2 :
           /\ k1 # k2
           /\ Count(tracker, k1, 1) > Count(tracker, k1, 4)
           /\ Count(tracker, k2, 1) > Count(tracker, k2, 4)

\* ---- add_job, seen through the tracker before (pre) and after (tracker)
AddCompleted == call.op = "add_job" /\ ~panicked

InSlice(k, m) == k = call.kind /\ m < Len(call.timestamps)

\* indices of the concrete entries of the slice before index m
ConcreteBefore(ts, m) == {x \in 0..(m - 1) : ts[x + 1] # <<>>}

\* C7: a completed add_job appends the job exactly once to the achieved list
\* of every present bucket (kind, i), i < timestamps.len(), whether the entry
\* is concrete or None, and changes the achieved list and cum_achieve_time of
\* no other bucket.
C7_AchievedFrame ==
    AddCompleted =>
        \A k \in 0..2, m \in 0..4 :
            /\ (tracker[k][m] = <<>>) <=> (pre[k][m] = <<>>)
            /\ tracker[k][m] # <<>> =>
                   IF InSlice(k, m)
                   THEN tracker[k][m][1].achieved = pre[k][m][1].achieved \o <<call.job>>
                   ELSE /\ tracker[k][m][1].achieved = pre[k][m][1].achieved
                        /\ tracker[k][m][1].cum_achieve_time = pre[k][m][1].cum_achieve_time

\* witness of C7: a completed call on a tracker that already holds a job, with
\* a None entry at a present bucket after a concrete one and a slice shorter
\* than the grid
C7_Witness ==
    /\ AddCompleted
    /\ n_calls = 2
    /\ call.kind = 0
    /\ Len(call.timestamps) = 4
    /\ call.timestamps[2] # <<>>
    /\ call.timestamps[3] = <<>>
    /\ Len(pre[0][4][1].achieved) = 1
    /\ Len(tracker[0][2][1].achieved) = 2

\* C8: a completed add_job adds to the cum_achieve_time of each present bucket
\* (kind, i), i < len, the difference between timestamps[i] and the most recent
\* earlier concrete timestamp of the slice, zero for the first concrete
\* timestamp and zero when timestamps[i] is None.
C8_AchieveTime ==
    AddCompleted =>
        \A m \in 0..4 :
            (InSlice(call.kind, m) /\ tracker[call.kind][m] # <<>>) =>
                LET ts == call.timestamps
                    before == ConcreteBefore(ts, m)
                    delta == IF ts[m + 1] = <<>> \/ before = {} THEN 0
                             ELSE ts[m + 1][1] - ts[Max(before) + 1][1]
                IN  tracker[call.kind][m][1].cum_achieve_time
                        = pre[call.kind][m][1].cum_achieve_time + delta

\* witness of C8: a completed call whose contract timestamp follows a None
\* contingency entry at a present bucket and is later than the appointment
C8_Witness ==
    /\ AddCompleted
    /\ call.kind = 0
    /\ Len(call.timestamps) >= 4
    /\ call.timestamps[2] # <<>>
    /\ call.timestamps[3] = <<>>
    /\ call.timestamps[4] # <<>>
    /\ call.timestamps[4][1] > call.timestamps[2][1]
    /\ pre[0][3][1].cum_achieve_time > 0
    /\ tracker[0][3][1].cum_achieve_time > pre[0][3][1].cum_achieve_time

\* present buckets of row k after index m
PresentAfter(b, k, m) == {x \in (m + 1)..4 : b[k][x] # <<>>}

Min(S) == CHOOSE x \in S : \A y \in S : x <= y

\* C9: a completed add_job with a loss timestamp adds (loss - last concrete
\* timestamp, or zero without one) to the cum_loss_time of exactly the first
\* present bucket of the kind after index len - 1, and to no other; without a
\* loss timestamp no cum_loss_time changes.
C9_LossTime ==
    AddCompleted =>
        LET ts == call.timestamps
            concrete == ConcreteBefore(ts, Len(ts))
            loss_time == IF concrete = {} THEN 0
                         ELSE call.loss_timestamp[1] - ts[Max(concrete) + 1][1]
            after == PresentAfter(pre, call.kind, Len(ts) - 1)
        IN  /\ call.loss_timestamp # <<>> => after # {}
            /\ \A k \in 0..2, m \in 0..4 :
                   tracker[k][m] # <<>> =>
                       tracker[k][m][1].cum_loss_time =
                           pre[k][m][1].cum_loss_time
                           + (IF /\ call.loss_timestamp # <<>>
                                 /\ k = call.kind
                                 /\ m = Min(after)
                              THEN loss_time ELSE 0)

\* witness of C9: a job of a kind without contingency lost after its
\* appointment: the loss time goes to the ContractSigned bucket, which already
\* held loss time
C9_Witness ==
    /\ AddCompleted
    /\ call.kind # 0
    /\ Len(call.timestamps) = 2
    /\ call.loss_timestamp # <<>>
    /\ call.timestamps[2] # <<>>
    /\ pre[call.kind][3][1].cum_loss_time > 0
    /\ tracker[call.kind][3][1].cum_loss_time > pre[call.kind][3][1].cum_loss_time

\* ---- contract violations of the tracker
\* a concrete timestamp of the last add_job call sits at an absent cell
ConcreteAtAbsent ==
    \E m \in 0..(MILESTONE_NUM_VARIANTS - 1) :
        /\ m < Len(call.timestamps)
        /\ pre[call.kind][m] = <<>>
        /\ call.timestamps[m + 1] # <<>>

\* C11: on a tracker whose mask disables ContingencySigned for
\* InsuranceWithoutContingency and Retail, add_job with a concrete timestamp
\* at an index whose (kind, index) cell is absent fails: it does not complete.
C11_ConcreteAtAbsentFails ==
    (call.op = "add_job" /\ ConcreteAtAbsent) => panicked

\* witness of C11: a Retail or InsuranceWithoutContingency job with all five
\* entries and no loss, correct but for a concrete ContingencySigned
\* timestamp, has failed
C11_Witness ==
    /\ call.op = "add_job"
    /\ call.kind \in {InsuranceWithoutContingency, Retail}
    /\ Len(call.timestamps) = MILESTONE_NUM_VARIANTS
    /\ call.loss_timestamp = <<>>
    /\ call.timestamps[ContingencySigned + 1] # <<>>
    /\ pre[call.kind][ContingencySigned] = <<>>
    /\ panicked

\* a kind of the last calc_stats call has no bucket at the milestone
KindWithoutBucket ==
    \E i \in 1..Len(call.kinds) : pre[call.kinds[i]][call.milestone] = <<>>

\* C20: calc_stats(milestone, kinds) fails and returns nothing whenever a
\* kind of `kinds` has no bucket at `milestone`; when every listed kind has
\* one, it returns num_total = the sum of those buckets' achieved counts.
C20_CalcStatsPanics ==
    call.op = "calc_stats" =>
        IF KindWithoutBucket
        THEN panicked /\ result = <<>>
        ELSE /\ ~panicked
             /\ result # <<>>
             /\ result[1].num_total = NumTotal(pre, call.milestone, call.kinds)

\* witness of C20: calc_stats at ContingencySigned over a list that holds a
\* kind with a bucket there, holding a job, and a kind without one
C20_Witness ==
    /\ call.op = "calc_stats"
    /\ call.milestone = ContingencySigned
    /\ call.kinds = <<InsuranceWithContingency, Retail>>
    /\ Count(pre, InsuranceWithContingency, ContingencySigned) > 0
    /\ panicked
    /\ result = <<>>

\* ---- analyze_job, seen through its input (input_job) and output (analyzed)
CountTag(errors, tag) == Cardinality({n \in 1..Len(errors) : errors[n].tag = tag})

HasInsuranceData(j) ==
    j.insurance_company_name # <<>> \/ j.insurance_claim_number # <<>>

InsuranceTreated(j) == j.insurance_checkbox \/ HasInsuranceData(j)

\* C12: a job with the insurance box unchecked and no insurance data whose
\* analysis exists is InsuranceWithContingency with exactly one
\* ContingencyWithoutInsurance if it has a contingency date, and Retail with
\* none otherwise; ContingencyWithoutInsurance alone never removes the analysis.
C12_RetailWithContingency ==
    (pc = "analyzed" /\ ~InsuranceTreated(input_job[1])) =>
        LET a == analyzed[1]
            n == CountTag(a.errors, "ContingencyWithoutInsurance")
        IN  /\ a.analysis # <<>> =>
                   IF input_job[1].milestone_dates.contingency_date # <<>>
                   THEN a.analysis[1].kind = InsuranceWithContingency /\ n = 1
                   ELSE a.analysis[1].kind = Retail /\ n = 0
            /\ (\A i \in 1..Len(a.errors) : a.errors[i].tag = "ContingencyWithoutInsurance")
                   => a.analysis # <<>>

\* witness of C12: such a job with contingency and contract dates, analysed
\* and reclassified with one anomaly
C12_Witness ==
    /\ pc = "analyzed"
    /\ ~InsuranceTreated(input_job[1])
    /\ DateAt(input_job[1], 2) # <<>>
    /\ DateAt(input_job[1], 3) # <<>>
    /\ analyzed[1].analysis # <<>>
    /\ analyzed[1].analysis[1].kind = InsuranceWithContingency
    /\ analyzed[1].errors = <<ContingencyWithoutInsurance>>

\* C13: a job treated as insurance whose analysis exists is
\* InsuranceWithoutContingency iff its contingency date is absent and it
\* reached ContractSigned or a later milestone; otherwise it is
\* InsuranceWithContingency, as is every job not past ContingencySigned.
C13_InsuranceKind ==
    (pc = "analyzed" /\ InsuranceTreated(input_job[1]) /\ analyzed[1].analysis # <<>>) =>
        LET j == input_job[1]
            analysis == analyzed[1].analysis[1]
            past_contingency == DateAt(j, 3) # <<>> \/ DateAt(j, 4) # <<>>
        IN  /\ past_contingency <=> Len(analysis.timestamps) > ContractSigned
            /\ IF DateAt(j, 2) = <<>> /\ past_contingency
               THEN analysis.kind = InsuranceWithoutContingency
               ELSE analysis.kind = InsuranceWithContingency

\* witness of C13: a job with insurance data, no contingency date and a
\* contract date, analysed as InsuranceWithoutContingency
C13_Witness ==
    /\ pc = "analyzed"
    /\ HasInsuranceData(input_job[1])
    /\ DateAt(input_job[1], 2) = <<>>
    /\ DateAt(input_job[1], 3) # <<>>
    /\ DateAt(input_job[1], 4) = <<>>
    /\ analyzed[1].analysis # <<>>
    /\ analyzed[1].analysis[1].kind = InsuranceWithoutContingency

\* C14: InconsistentInsuranceInfo is emitted, once, exactly when the insurance
\* box is unchecked and a company name or a claim number is present; the
\* analysis of such a job, if any, is never Retail; the anomaly alone never
\* removes the analysis.
C14_InconsistentInsuranceInfo ==
    pc = "analyzed" =>
        LET j == input_job[1]
            a == analyzed[1]
            inconsistent == ~j.insurance_checkbox /\ HasInsuranceData(j)
        IN  /\ CountTag(a.errors, "InconsistentInsuranceInfo") = IF inconsistent THEN 1 ELSE 0
            /\ (inconsistent /\ a.analysis # <<>>) => a.analysis[1].kind # Retail
            /\ a.errors = <<InconsistentInsuranceInfo>> => a.analysis # <<>>

\* witness of C14: box unchecked, a claim number but no company name, a
\* contract and no contingency: flagged and analysed as an insurance job
C14_Witness ==
    /\ pc = "analyzed"
    /\ ~input_job[1].insurance_checkbox
    /\ input_job[1].insurance_company_name = <<>>
    /\ input_job[1].insurance_claim_number # <<>>
    /\ analyzed[1].errors = <<InconsistentInsuranceInfo>>
    /\ analyzed[1].analysis # <<>>
    /\ analyzed[1].analysis[1].kind = InsuranceWithoutContingency

\* the furthest milestone with a date, LeadAcquired if there is none
Furthest(j) == Max({0} \cup {i \in 1..4 : DateAt(j, i) # <<>>})

\* milestone g has no date and a later milestone has one
Gap(j, g) == DateAt(j, g) = <<>> /\ \E m \in (g + 1)..4 : DateAt(j, m) # <<>>

\* the dates of the milestones 1..upto that are present do not decrease
DatesInOrder(j, upto) ==
    \A a \in 1..upto, b \in 1..upto :
        (a < b /\ DateAt(j, a) # <<>> /\ DateAt(j, b) # <<>>)
            => DateAt(j, a)[1] <= DateAt(j, b)[1]

\* the milestone dates of the job are confirmed by the retrace: none is
\* skipped and they are in order
DatesConfirmed(j) ==
    /\ ~Gap(j, AppointmentMade)
    /\ ~Gap(j, ContractSigned)
    /\ DatesInOrder(j, 4)

\* a loss date not earlier than the last confirmed milestone date, on a job
\* that reached ContractSigned or Installed
LossAfterContract(j) ==
    /\ DatesConfirmed(j)
    /\ j.milestone_dates.loss_date # <<>>
    /\ Furthest(j) >= ContractSigned
    /\ j.milestone_dates.loss_date[1] >= DateAt(j, Furthest(j))[1]

\* C15: a loss date not earlier than the last confirmed milestone date on a
\* job that reached ContractSigned or Installed yields InvalidLoss together
\* with an analysis that keeps the loss timestamp and all the timestamps up
\* to the furthest milestone; InvalidLoss is emitted in no other situation.
C15_InvalidLoss ==
    pc = "analyzed" =>
        LET j == input_job[1]
            a == analyzed[1]
        IN  /\ CountTag(a.errors, "InvalidLoss") = IF LossAfterContract(j) THEN 1 ELSE 0
            /\ LossAfterContract(j) =>
                   /\ a.analysis # <<>>
                   /\ a.analysis[1].loss_timestamp = j.milestone_dates.loss_date
                   /\ a.analysis[1].timestamps =
                          <<None>> \o [i \in 1..Furthest(j) |-> DateAt(j, i)]

\* witness of C15: a job without contingency lost after its contract and
\* before any install, flagged and analysed with four timestamps
C15_Witness ==
    /\ pc = "analyzed"
    /\ LossAfterContract(input_job[1])
    /\ Furthest(input_job[1]) = ContractSigned
    /\ DateAt(input_job[1], 2) = <<>>
    /\ input_job[1].milestone_dates.loss_date[1] > DateAt(input_job[1], 3)[1]
    /\ HasError(analyzed[1].errors, InvalidLoss)
    /\ Len(analyzed[1].analysis[1].timestamps) = 4

\* the first milestone after g that has a date
FirstDateAfter(j, g) == Min({m \in (g + 1)..4 : DateAt(j, m) # <<>>})

\* an absent contingency date between an appointment and a later contract
\* produces no SkippedDates and the retrace goes on to the contract
ContingencyGapAccepted ==
    LET j == input_job[1]
        a == analyzed[1]
    IN  /\ HasTag(a.errors, "SkippedDates") => (Gap(j, AppointmentMade) \/ Gap(j, ContractSigned))
        /\ (/\ DateAt(j, 1) # <<>> /\ DateAt(j, 2) = <<>> /\ DateAt(j, 3) # <<>>
            /\ DateAt(j, 1)[1] <= DateAt(j, 3)[1]) =>
               /\ ~HasTag(a.errors, "SkippedDates")
               /\ a.analysis # <<>> => Len(a.analysis[1].timestamps) > ContractSigned

\* C16 (as stated): if the date of AppointmentMade or ContractSigned is absent,
\* a later milestone has a date and the dates before the gap are in order,
\* the analysis is None and SkippedDates(m) is reported for the first later
\* milestone m with a date; an absent contingency date alone is accepted.
C16_SkippedDatesOfEveryGap ==
    pc = "analyzed" =>
        /\ \A g \in {AppointmentMade, ContractSigned} :
               (Gap(input_job[1], g) /\ DatesInOrder(input_job[1], g - 1)) =>
                   /\ analyzed[1].analysis = <<>>
                   /\ HasError(analyzed[1].errors, SkippedDates(FirstDateAfter(input_job[1], g)))
        /\ ContingencyGapAccepted

\* C16 (amended): under the same conditions the analysis is None and the last
\* anomaly is SkippedDates(m) for the first milestone m with a date after the
\* earliest gap: after the appointment if the appointment date is absent,
\* whatever gap lies behind it; an absent contingency date alone is accepted.
C16_SkippedDatesOfFirstGap ==
    pc = "analyzed" =>
        /\ \A g \in {AppointmentMade, ContractSigned} :
               (Gap(input_job[1], g) /\ DatesInOrder(input_job[1], g - 1)) =>
                   LET errors == analyzed[1].errors
                       first == IF Gap(input_job[1], AppointmentMade)
                                THEN AppointmentMade ELSE g
                   IN  /\ analyzed[1].analysis = <<>>
                       /\ Len(errors) > 0
                       /\ errors[Len(errors)] = SkippedDates(FirstDateAfter(input_job[1], first))
                       /\ CountTag(errors, "SkippedDates") = 1
        /\ ContingencyGapAccepted

\* witness of C16: no appointment date, a contingency date, no contract date
\* and an install date: two gaps, the analysis is None
C16_Witness ==
    /\ pc = "analyzed"
    /\ Gap(input_job[1], AppointmentMade)
    /\ Gap(input_job[1], ContractSigned)
    /\ DateAt(input_job[1], 2) # <<>>
    /\ analyzed[1].analysis = <<>>
    /\ HasError(analyzed[1].errors, SkippedDates(ContingencySigned))

\* C17: the analysis is None iff the anomalies contain an OutOfOrderDates or a
\* SkippedDates; the other anomalies never remove the analysis; the
\* AnalyzedJob holds the input job unchanged in both outcomes.
C17_AbortingAnomalies ==
    pc = "analyzed" =>
        /\ analyzed[1].analysis = <<>> <=>
               (HasTag(analyzed[1].errors, "OutOfOrderDates")
                \/ HasTag(analyzed[1].errors, "SkippedDates"))
        /\ analyzed[1].job = input_job[1]

\* witness of C17: a job flagged with InconsistentInsuranceInfo and
\* InvalidLoss keeps its analysis
C17_Witness ==
    /\ pc = "analyzed"
    /\ analyzed[1].errors = <<InconsistentInsuranceInfo, InvalidLoss>>
    /\ analyzed[1].analysis # <<>>
    /\ analyzed[1].job = input_job[1]

ErrorTags ==
    {"ContingencyWithoutInsurance", "InconsistentInsuranceInfo", "OutOfOrderDates",
     "SkippedDates", "InvalidLoss"}

Merge(a, b) ==
    [k \in DOMAIN a |->
        [m \in DOMAIN a[k] |->
            IF a[k][m] = <<>> THEN <<>>
            ELSE <<[achieved |-> a[k][m][1].achieved \o b[k][m][1].achieved,
                    cum_achieve_time |-> a[k][m][1].cum_achieve_time + b[k][m][1].cum_achieve_time,
                    cum_loss_time |-> a[k][m][1].cum_loss_time + b[k][m][1].cum_loss_time]>>]]

\* the tracker of a sales rep, empty while the rep has no settled job
RepTracker(rep) ==
    IF rep_specific_trackers[rep] = <<>> THEN build_job_tracker
    ELSE rep_specific_trackers[rep][1]

MergedRepTrackers == Merge(RepTracker(<<>>), RepTracker(<<"rep">>))

\* C18: the per-rep trackers hold disjoint job sets and the global tracker
\* holds their union, added in batch order; merging the per-rep trackers by
\* per-bucket summation gives the counts, cumulative times, calc_stats and
\* calc_stats_of_loss results of the global tracker, whatever the order of
\* the add_job calls.
C18_MergeAdditive ==
    ~panicked =>
        /\ \A k \in Kinds, m \in Milestones :
               /\ MergedRepTrackers[k][m] = <<>> <=> tracker[k][m] = <<>>
               /\ tracker[k][m] # <<>> =>
                      /\ Count(MergedRepTrackers, k, m) = Count(tracker, k, m)
                      /\ MergedRepTrackers[k][m][1].cum_achieve_time
                             = tracker[k][m][1].cum_achieve_time
                      /\ MergedRepTrackers[k][m][1].cum_loss_time
                             = tracker[k][m][1].cum_loss_time
        /\ \A m \in Milestones, kinds \in KindLists :
               calc_stats(MergedRepTrackers, m, kinds) = calc_stats(tracker, m, kinds)
        /\ calc_stats_of_loss(MergedRepTrackers) = calc_stats_of_loss(tracker)

\* witness of C18: two settled jobs, the first of the rep and the second of
\* no rep, so that the merged tracker lists them in the other order than the
\* global one, with time accumulated and a loss
C18_Witness ==
    /\ ~panicked
    /\ n_calls = 2
    /\ tracker[0][1][1].achieved = <<1, 2>>
    /\ MergedRepTrackers[0][1][1].achieved = <<2, 1>>
    /\ tracker[0][3][1].cum_achieve_time > 0
    /\ calc_stats_of_loss(tracker).total_num_lost > 0

\* ---- contract of add_job
\* C21: add_job fails when the slice is empty or longer than N, when no loss
\* timestamp is given and the slice has fewer than N entries, and when a loss
\* timestamp is given but the kind has no present bucket after index
\* len - 1, as with a slice of all N milestones; a slice of a wrong length
\* fails before anything is recorded.
C21_AddJobContract ==
    call.op = "add_job" =>
        LET len == Len(call.timestamps)
            bad_length == len = 0 \/ len > MILESTONE_NUM_VARIANTS
        IN  /\ bad_length => (panicked /\ tracker = pre)
            /\ (call.loss_timestamp = <<>> /\ len < MILESTONE_NUM_VARIANTS) => panicked
            /\ (/\ call.loss_timestamp # <<>>
                /\ ~bad_length
                /\ PresentAfter(pre, call.kind, len - 1) = {}) => panicked
            /\ (call.loss_timestamp # <<>> /\ len = MILESTONE_NUM_VARIANTS) => panicked

\* witness of C21: an insurance job with appointment and contingency
\* timestamps and no loss timestamp has failed on a tracker holding a job
C21_Witness ==
    /\ call.op = "add_job"
    /\ call.kind = InsuranceWithContingency
    /\ Len(call.timestamps) = 3
    /\ call.timestamps[2] # <<>>
    /\ call.timestamps[3] # <<>>
    /\ call.loss_timestamp = <<>>
    /\ n_calls = 2
    /\ panicked

\* ---- presence of cells
\* C22: JobTracker::new(mask) creates a bucket for (kind, milestone) iff
\* mask[kind][milestone] is true, each with no jobs and zero cumulative times,
\* and after any sequence of add_job calls get_bucket(kind, milestone) is None
\* iff the mask entry is false.
C22_MaskFixesPresence ==
    \A kind \in Kinds, ms \in Milestones :
        /\ (get_bucket(tracker, kind, ms) = <<>>) <=> ~tracker_mask[kind][ms]
        /\ (n_calls = 0 /\ tracker_mask[kind][ms]) =>
               get_bucket(tracker, kind, ms) = <<Bucket_default>>
        /\ (get_bucket(JobTracker_new(tracker_mask), kind, ms) = <<>>)
               <=> ~tracker_mask[kind][ms]

\* witness of C22: under a mask that is not the standard one, two add_job
\* calls have returned; a present bucket is still empty and an absent cell is
\* still absent
C22_Witness ==
    /\ tracker_mask # StandardMask
    /\ n_calls = 2
    /\ ~panicked
    /\ \E kind \in Kinds, ms \in Milestones :
        /\ tracker_mask[kind][ms]
        /\ get_bucket(tracker, kind, ms) = <<Bucket_default>>
    /\ \E kind \in Kinds, ms \in Milestones :
        /\ ~tracker_mask[kind][ms]
        /\ get_bucket(tracker, kind, ms) = <<>>
        /\ get_bucket(tracker, kind, Installed) # <<Bucket_default>>

\* ---- shape of an analysis
\* C23: the kind of an analysis agrees with the standard mask: when the kind
\* is InsuranceWithoutContingency or Retail, the ContingencySigned entry of the
\* timestamps, if the sequence reaches it, is None, so that no entry is
\* concrete where the standard tracker has no bucket; when the kind is
\* InsuranceWithContingency and the sequence reaches ContractSigned, the
\* ContingencySigned entry is concrete.
C23_KindAgreesWithMask ==
    (pc = "analyzed" /\ analyzed[1].analysis # <<>>) =>
        LET analysis == analyzed[1].analysis[1]
            len == Len(analysis.timestamps)
        IN  /\ (analysis.kind \in {InsuranceWithoutContingency, Retail}
                    /\ len > ContingencySigned) =>
                   analysis.timestamps[ContingencySigned + 1] = <<>>
            /\ \A ms \in 0..(len - 1) :
                   ~StandardMask[analysis.kind][ms] => analysis.timestamps[ms + 1] = <<>>
            /\ (analysis.kind = InsuranceWithContingency /\ len > ContractSigned) =>
                   analysis.timestamps[ContingencySigned + 1] # <<>>

\* witness of C23: a job without insurance data and with a contingency date
\* and a contract date has an analysis that reaches ContractSigned
C23_Witness ==
    /\ pc = "analyzed"
    /\ ~HasInsuranceData(input_job[1])
    /\ DateAt(input_job[1], 2) # <<>>
    /\ DateAt(input_job[1], 3) # <<>>
    /\ analyzed[1].analysis # <<>>
    /\ Len(analyzed[1].analysis[1].timestamps) > ContractSigned

\* C24: the timestamps of an analysis have between 1 and 5 entries, the
\* first is None, the last is concrete when there is more than one, the
\* concrete entries are non-decreasing in milestone order, and the loss
\* timestamp, if present, is not earlier than any concrete entry.
C24_AnalysisTimestamps ==
    (pc = "analyzed" /\ analyzed[1].analysis # <<>>) =>
        LET analysis == analyzed[1].analysis[1]
            ts == analysis.timestamps
            len == Len(ts)
        IN  /\ len \in 1..MILESTONE_NUM_VARIANTS
            /\ ts[LeadAcquired + 1] = <<>>
            /\ len > 1 => ts[len] # <<>>
            /\ \A a, b \in 1..len :
                   (a < b /\ ts[a] # <<>> /\ ts[b] # <<>>) => ts[a][1] <= ts[b][1]
            /\ \A a \in 1..len :
                   (ts[a] # <<>> /\ analysis.loss_timestamp # <<>>) =>
                       ts[a][1] <= analysis.loss_timestamp[1]

\* witness of C24: an analysis over three concrete timestamps, the last later
\* than the first, with a loss timestamp
C24_Witness ==
    /\ pc = "analyzed"
    /\ analyzed[1].analysis # <<>>
    /\ LET analysis == analyzed[1].analysis[1]
       IN  /\ Len(analysis.timestamps) = 4
           /\ \A a \in 2..4 : analysis.timestamps[a] # <<>>
           /\ analysis.timestamps[2][1] < analysis.timestamps[4][1]
           /\ analysis.loss_timestamp # <<>>

\* ---- counts along a row
\* C25: after completed add_job calls, in every row the achieved count of a
\* present bucket is at most the achieved count of every earlier present
\* bucket of the row; hence the subtraction in calc_stats_of_loss never
\* underflows and a conversion rate of calc_stats is at most 1.  (calc_stats
\* takes &self: the counts it leaves are those of the state it was called in.)
C25_CountsNonIncreasing ==
    /\ (~panicked /\ call.op # "calc_stats") =>
           \A kind \in Kinds, a \in Milestones, b \in Milestones :
               (a < b /\ tracker[kind][a] # <<>> /\ tracker[kind][b] # <<>>) =>
                   Count(tracker, kind, b) <= Count(tracker, kind, a)
    /\ call.op = "calc_stats_of_loss" => (~panicked /\ result # <<>>)
    /\ (StatsReturned /\ result[1].conversion_rate # <<>>) =>
           result[1].conversion_rate[1][1] <= result[1].conversion_rate[1][2]

\* witness of C25: three jobs of one kind, stopped at three different
\* milestones, and calc_stats_of_loss has returned
C25_Witness ==
    /\ call.op = "calc_stats_of_loss"
    /\ result # <<>>
    /\ n_calls = 3
    /\ \E kind \in Kinds :
           /\ Count(tracker, kind, LeadAcquired) = 3
           /\ Count(tracker, kind, AppointmentMade) = 2
           /\ Count(tracker, kind, ContractSigned) = 1
           /\ Count(tracker, kind, Installed) = 0

\* the added jobs that calc_stats_of_loss counts as lost: those with a loss
\* timestamp that reached at least AppointmentMade
LostAdds == {i \in 1..Len(log) : log[i].loss_timestamp # <<>> /\ Len(log[i].timestamps) >= 2}

\* the time from the last concrete timestamp of the i-th added job to its loss
LossDelay(i) ==
    LET ts == log[i].timestamps
        concrete == {x \in 1..Len(ts) : ts[x] # <<>>}
    IN  IF concrete = {} THEN 0 ELSE log[i].loss_timestamp[1] - ts[Max(concrete)][1]

\* C26: under the standard mask and completed add_job calls,
\* calc_stats_of_loss counts as lost exactly the added jobs with a loss
\* timestamp and at least two timestamps entries, its total loss time is the
\* sum of the loss delays of those jobs, and its average is that total
\* divided by the count; jobs lost as leads count for neither.
C26_LossesAreLostJobs ==
    call.op = "calc_stats_of_loss" =>
        LET total == SumFn([i \in LostAdds |-> LossDelay(i)], LostAdds)
            acc == loss_rows(tracker, 0, [last_achieved |-> <<>>, total_num_lost |-> 0,
                                          total_loss_time |-> 0, ok |-> TRUE])
        IN  /\ result # <<>>
            /\ result[1].total_num_lost = Cardinality(LostAdds)
            /\ acc.total_loss_time = total
            /\ result[1].average_loss_time =
                   IF LostAdds = {} THEN 0 ELSE total \div Cardinality(LostAdds)

\* witness of C26: three lost jobs, one of them lost as a lead, and an
\* average loss time that differs from the total
C26_Witness ==
    /\ call.op = "calc_stats_of_loss"
    /\ result # <<>>
    /\ Len(log) = 3
    /\ \A i \in 1..3 : log[i].loss_timestamp # <<>>
    /\ \E i \in 1..3 : Len(log[i].timestamps) = 1
    /\ result[1].total_num_lost = 2
    /\ result[1].average_loss_time > 0
    /\ result[1].average_loss_time < SumFn([i \in LostAdds |-> LossDelay(i)], LostAdds)

\* ---- process_jobs against the jobs it was given (log)
\* how often the job jnid is recorded in the LeadAcquired bucket of row kind
Occurrences(b, kind, jnid) ==
    Cardinality({x \in 1..Len(b[kind][LeadAcquired][1].achieved) :
                    b[kind][LeadAcquired][1].achieved[x] = jnid})

\* C27 (as stated): every settled job that process_jobs was given is recorded
\* exactly once in the global tracker, exactly once in the tracker of its own
\* sales rep and in no other tracker, and every global bucket holds the sums
\* of the per-rep buckets.
C27_SettledJobInBothTrackers ==
    /\ \A i \in 1..Len(log) :
           AnalysisSettled(log[i]) =>
               LET kind == log[i].analysis[1].kind
                   jnid == log[i].job.jnid
               IN  /\ Occurrences(tracker, kind, jnid) = 1
                   /\ \A rep \in Reps :
                          Occurrences(RepTracker(rep), kind, jnid)
                              = IF rep = log[i].job.sales_rep THEN 1 ELSE 0
    /\ \A k \in Kinds, m \in Milestones :
           tracker[k][m] # <<>> =>
               /\ Count(tracker, k, m) = Count(MergedRepTrackers, k, m)
               /\ tracker[k][m][1].cum_achieve_time
                      = MergedRepTrackers[k][m][1].cum_achieve_time
               /\ tracker[k][m][1].cum_loss_time = MergedRepTrackers[k][m][1].cum_loss_time

\* the anomalies of the first n jobs of the log that belong to rep, as
\* (job, anomaly) pairs in the order analyze_job returned them
RECURSIVE AnomaliesOf(_, _)
AnomaliesOf(rep, n) ==
    IF n = 0 THEN <<>>
    ELSE AnomaliesOf(rep, n - 1)
         \o (IF log[n].job.sales_rep = rep
             THEN [i \in 1..Len(log[n].errors) |-> <<log[n].job.jnid, log[n].errors[i]>>]
             ELSE <<>>)

RecordedFlags(rep) == IF red_flags[rep] = <<>> THEN <<>> ELSE red_flags[rep][1]

\* C28 (as stated): process_jobs records every anomaly that analyze_job
\* returned, once and in order, under the sales rep of its job, whether or not
\* the job has an analysis, is settled or went to add_job.
C28_EveryAnomalyRecorded ==
    \A rep \in Reps : RecordedFlags(rep) = AnomaliesOf(rep, Len(log))

\* ---- run_with_credentials, seen through the events of the current run
OperationEvents == {i \in 1..Len(oauth.events) : oauth.events[i].ev = "operation"}

WriteEvents == {i \in 1..Len(oauth.events) : oauth.events[i].ev = "write"}

SourceRank(source) == CASE source = "cached" -> 1 [] source = "refreshed" -> 2 [] source = "fresh" -> 3

\* C29: the cache file is written only right after the operation succeeded
\* with a refreshed or a fresh token, and with that token; a run whose
\* operation succeeds with the cached token or never succeeds leaves the file
\* as it found it; the operation is tried with at most three tokens, in the
\* order cached, refreshed, fresh; a cached token known to be expired is never
\* passed to the operation.
C29_CacheWrittenAfterSuccess ==
    LET events == oauth.events
    IN  /\ \A w \in WriteEvents :
               /\ w = Len(events)
               /\ w - 1 \in OperationEvents
               /\ events[w - 1].result = "Ok"
               /\ events[w - 1].source \in {"refreshed", "fresh"}
               /\ events[w].token = events[w - 1].token
               /\ oauth.file \in {FileOf(events[w].token), FileGarbage}
               /\ events[w].result = "ok" => oauth.file = FileOf(events[w].token)
        /\ oauth.file # oauth.file_at_start => WriteEvents # {}
        /\ (\E i \in OperationEvents : events[i].source = "cached" /\ events[i].result = "Ok")
               => (WriteEvents = {} /\ oauth.file = oauth.file_at_start)
        /\ (\A i \in OperationEvents : events[i].result # "Ok")
               => (WriteEvents = {} /\ oauth.file = oauth.file_at_start)
        /\ Cardinality(OperationEvents) <= 3
        /\ \A i \in OperationEvents, j \in OperationEvents :
               i < j => SourceRank(events[i].source) < SourceRank(events[j].source)
        /\ oauth.known_expired =>
               \A i \in OperationEvents :
                   /\ events[i].source # "cached"
                   /\ events[i].token # oauth.expired_token[1]

\* witness of C29: in a second run the token cached by the first run and its
\* refreshed successor were both rejected, the operation succeeded with a
\* fresh token and that token is in the cache file
C29_Witness ==
    /\ oauth.runs = 2
    /\ pc = "returned"
    /\ oauth.file_at_start.token.origin = "refreshed"
    /\ Cardinality(OperationEvents) = 3
    /\ WriteEvents # {}
    /\ oauth.file = FileOf(oauth.token)
    /\ oauth.token.origin = "fresh"
    /\ oauth.outcome = "ok"

====
